---- MODULE Spec2Model ----
(***************************************************************************)
(* Sales dashboard: filtering, aggregation, ranking and context analysis.  *)
(*                                                                         *)
(* Column names of the sales table are Japanese in the source; the model   *)
(* uses these record fields for them:                                      *)
(*   period   = uriage-nengetsu (sales year-month, first day of the month) *)
(*   product  = shouhin-mei     (product name)                             *)
(*   staff    = tantousha       (staff)                                    *)
(*   customer = kokyaku-mei     (customer name)                            *)
(*   sales    = uriage-kingaku  (sales amount)                             *)
(*   cost     = shiire-kingaku  (cost amount)                              *)
(*   profit   = arari-kingaku   (gross profit)                             *)
(* Dates are day numbers: 1 = 1 January, 15 = 15 January, 32 = 1 February. *)
(***************************************************************************)
EXTENDS Integers, Sequences, FiniteSets, TLC

\* ------------------------------------------------------------------ bounds

\* Largest number of rows of a loaded dataset.
MaxRows == 2

\* Largest number of months of a dataset with one row per month.
MaxMonths == 11

\* Largest number of stored turns at which the chat input is still used.
MaxMessages == 3

\* ------------------------------------------------------- values and domains

\* pd.NaT: the period of a row whose year-month did not parse (errors='coerce').
NaT == 0

\* The selectbox entry meaning "all" (the two-character literal of the source).
AllSentinel == "<all>"

\* Python None for an Optional[str] argument; a given string s is <<s>>.
None == <<>>

Some(s) == <<s>>

\* Periods of the rows: null, 1 January, 1 February.
Periods == {NaT, 1, 32}

\* Days a date widget can return as start and as end of the range: the first
\* of a month or a day inside it.
StartDays == {1, 32}

EndDays == {15, 32}

\* Code-point order of the key strings (Python's str order, used by sorted()
\* and by groupby's sorted index).
KeyOrder == <<"CustomerY", "ProductA", "ProductB", "StaffX", "staffx", "<all>">>

KeyRank(k) == CHOOSE i \in 1..Len(KeyOrder) : KeyOrder[i] = k

Row(pe, pr, st, cu, sa, gp) ==
    [period |-> pe, product |-> pr, staff |-> st, customer |-> cu,
     sales |-> sa, cost |-> sa - gp, profit |-> gp]

\* Rows that vary in every filtered column (amounts fixed).
FilterRows ==
    { Row(pe, pr, st, cu, 2, 1) :
        pe \in Periods, pr \in {"ProductA", AllSentinel},
        st \in {"StaffX", AllSentinel}, cu \in {"CustomerY", AllSentinel} }

\* Rows that vary in period, product and amounts (returns are negative sales).
AggRows ==
    { Row(pe, pr, "StaffX", "CustomerY", sa, gp) :
        pe \in Periods, pr \in {"ProductA", "ProductB"},
        sa \in {-2, 0, 2}, gp \in {0, 1} }

SeqsUpTo(S, n) == UNION { [1..k -> S] : k \in 0..n }

\* --------------------------------------------------------- FilterManager

\* Python truthiness of an Optional[str]: None and '' are falsy.
Truthy(o) == o # None /\ o[1] # ""

\* Seeded fault: the sentinel is compared like any other key.
ActiveNoSentinel(o) == Truthy(o)

\* `selected and selected != sentinel`: the guard of each key filter.
Active(o) == Truthy(o) /\ o[1] # AllSentinel

\* Seeded fault: the two comparisons joined by | instead of &.
DateMaskOr(p, start_date, end_date) ==
    p # NaT /\ (p >= start_date \/ p <= end_date)

\* Seeded fault: upper bound exclusive.
DateMaskExclusive(p, start_date, end_date) ==
    p # NaT /\ p >= start_date /\ p < end_date

\* (period.dt.date >= start_date) & (period.dt.date <= end_date); a comparison
\* with a null period is False.
DateMask(p, start_date, end_date) ==
    p # NaT /\ p >= start_date /\ p <= end_date

\* `if date_range and len(date_range) == 2`
HasDateRange(dr) == Len(dr) # 0 /\ Len(dr) = 2

\* Seeded fault: a start date alone is applied as a lower bound.
FilterDatesFromStart(d, dr) ==
    IF HasDateRange(dr)
    THEN SelectSeq(d, LAMBDA r : DateMask(r.period, dr[1], dr[2]))
    ELSE IF Len(dr) = 1
         THEN SelectSeq(d, LAMBDA r : r.period # NaT /\ r.period >= dr[1])
         ELSE d

\* The date stage of apply_filters: skipped unless two dates are given.
FilterDates(d, dr) ==
    IF HasDateRange(dr)
    THEN SelectSeq(d, LAMBDA r : DateMask(r.period, dr[1], dr[2]))
    ELSE d

FilterKey(d, col, o) ==
    IF Active(o) THEN SelectSeq(d, LAMBDA r : r[col] = o[1]) ELSE d

\* Seeded fault: an off-by-one slice drops the first row of the result.
apply_filters_dropfirst(d, dr, st, pr, cu) ==
    LET f == FilterKey(FilterKey(FilterKey(FilterDates(d, dr),
                 "staff", st), "product", pr), "customer", cu)
    IN IF Len(f) > 0 THEN Tail(f) ELSE f

apply_filters(d, dr, st, pr, cu) ==
    FilterKey(FilterKey(FilterKey(FilterDates(d, dr),
        "staff", st), "product", pr), "customer", cu)

\* ------------------------------------------------------ float arithmetic

\* A float64 result is a reduced fraction n/d, an infinity (n is its sign) or
\* NaN, which is also pandas' null.  Rounding error of finite values is left out.
Abs(x) == IF x < 0 THEN -x ELSE x

Sign(x) == IF x < 0 THEN -1 ELSE IF x > 0 THEN 1 ELSE 0

RECURSIVE Gcd(_, _)
Gcd(a, b) == IF b = 0 THEN a ELSE Gcd(b, a % b)

Rat(n, d) ==
    LET s == IF d < 0 THEN -1 ELSE 1
        g == Gcd(Abs(n), Abs(d))
    IN [kind |-> "num", n |-> (s * n) \div g, d |-> (s * d) \div g]

FromInt(i) == [kind |-> "num", n |-> i, d |-> 1]

NaN == [kind |-> "nan", n |-> 0, d |-> 1]

Inf(sign) == [kind |-> "inf", n |-> sign, d |-> 1]

\* pd.isna
IsNull(x) == x.kind = "nan"

\* Sign of a float for the infinity rules (0 counts as +0).
FSign(x) == IF x.n < 0 THEN -1 ELSE 1

\* numpy true division: x/0 is +-inf, 0/0 is NaN, no exception.
FDiv(a, b) ==
    IF a.kind = "nan" \/ b.kind = "nan" THEN NaN
    ELSE IF a.kind = "inf" THEN (IF b.kind = "inf" THEN NaN ELSE Inf(a.n * FSign(b)))
    ELSE IF b.kind = "inf" THEN FromInt(0)
    ELSE IF b.n = 0 THEN (IF a.n = 0 THEN NaN ELSE Inf(Sign(a.n)))
    ELSE Rat(a.n * b.d, a.d * b.n)

FSub(a, b) ==
    IF a.kind = "nan" \/ b.kind = "nan" THEN NaN
    ELSE IF a.kind = "inf" THEN (IF b.kind = "inf" /\ b.n = a.n THEN NaN ELSE a)
    ELSE IF b.kind = "inf" THEN Inf(-b.n)
    ELSE Rat(a.n * b.d - b.n * a.d, a.d * b.d)

FMul(a, b) ==
    IF a.kind = "nan" \/ b.kind = "nan" THEN NaN
    ELSE IF a.kind = "inf" \/ b.kind = "inf"
         THEN (IF a.n = 0 \/ b.n = 0 THEN NaN ELSE Inf(Sign(a.n) * Sign(b.n)))
    ELSE Rat(a.n * b.n, a.d * b.d)

\* n/d (d > 0) rounded to the nearest integer, halves to even.
RoundHalfEven(n, d) ==
    LET q == n \div d
        r == n - q * d
    IN IF 2 * r < d THEN q
       ELSE IF 2 * r > d THEN q + 1
       ELSE IF q % 2 = 0 THEN q ELSE q + 1

\* .round(0) and .round(1): scale is 1 or 10.  inf and NaN stay as they are.
FRound(x, scale) ==
    IF x.kind # "num" THEN x
    ELSE Rat(RoundHalfEven(x.n * scale, x.d), scale)

\* ------------------------------------------------------------ aggregation

RECURSIVE SumCol(_, _)
SumCol(d, col) == IF d = <<>> THEN 0 ELSE Head(d)[col] + SumCol(Tail(d), col)

RECURSIVE SortedInts(_)
SortedInts(S) ==
    IF S = {} THEN <<>>
    ELSE LET m == CHOOSE x \in S : \A y \in S : x <= y
         IN <<m>> \o SortedInts(S \ {m})

\* The group keys of groupby(period): sorted ascending, null keys dropped
\* (pandas' default dropna=True).
PeriodKeys(d) == SortedInts({d[i].period : i \in 1..Len(d)} \ {NaT})

\* The group keys of groupby on a string column, in sorted order.
StrKeys(d, col) ==
    LET ranks == SortedInts({KeyRank(d[i][col]) : i \in 1..Len(d)})
    IN [i \in 1..Len(ranks) |-> KeyOrder[ranks[i]]]

GroupRows(d, col, k) == SelectSeq(d, LAMBDA r : r[col] = k)

\* Seeded fault: the change relative to the current value instead of the previous.
pct_change_bycurrent(s) ==
    [i \in 1..Len(s) |->
        IF i = 1 THEN NaN
        ELSE FSub(FromInt(1), FDiv(FromInt(s[i - 1]), FromInt(s[i])))]

\* Series.pct_change(): s / s.shift(1) - 1; the first element has no
\* predecessor and is NaN.
pct_change(s) ==
    [i \in 1..Len(s) |->
        IF i = 1 THEN NaN
        ELSE FSub(FDiv(FromInt(s[i]), FromInt(s[i - 1])), FromInt(1))]

\* groupby(period).agg(sum).reset_index(), then the two pct_change()*100 columns.
MonthlyData(d) ==
    LET keys == PeriodKeys(d)
        sales == [i \in 1..Len(keys) |-> SumCol(GroupRows(d, "period", keys[i]), "sales")]
        profit == [i \in 1..Len(keys) |-> SumCol(GroupRows(d, "period", keys[i]), "profit")]
        ps == pct_change(sales)
        pp == pct_change(profit)
    IN [i \in 1..Len(keys) |->
           [period |-> keys[i], sales |-> sales[i], profit |-> profit[i],
            pct_sales |-> FMul(ps[i], FromInt(100)),
            pct_profit |-> FMul(pp[i], FromInt(100))]]

\* The three numbers of the KPI cards that are computed (ChartManager).
KpiCards(d) ==
    LET total_sales == SumCol(d, "sales")
        total_profit == SumCol(d, "profit")
    IN [total_sales |-> total_sales,
        total_profit |-> total_profit,
        profit_rate |->
            IF total_sales > 0
            THEN FMul(FDiv(FromInt(total_profit), FromInt(total_sales)), FromInt(100))
            ELSE FromInt(0),
        avg_sales |-> FDiv(FromInt(total_sales), FromInt(Len(d)))]

\* ---------------------------------------------------------------- ranking

TopNMain == 10

\* groupby(col)[sales].sum(): one entry per key, in sorted key order.
GroupSales(d, col) ==
    LET keys == StrKeys(d, col)
    IN [i \in 1..Len(keys) |->
           [key |-> keys[i], value |-> SumCol(GroupRows(d, col, keys[i]), "sales")]]

Injections(n) == {p \in [1..n -> 1..n] : \A i, j \in 1..n : i # j => p[i] # p[j]}

\* sort_values(ascending=False) with pandas' default kind='quicksort', which
\* is not a stable sort: every arrangement with non-increasing values is a
\* possible result, the order among equal values is not determined.
SortValuesDesc(g) ==
    { [i \in 1..Len(g) |-> g[p[i]]] : p \in
        { q \in Injections(Len(g)) :
            \A i \in 1..(Len(g) - 1) : g[q[i]].value >= g[q[i + 1]].value } }

\* .head(n)
HeadN(s, n) == SubSeq(s, 1, IF n < Len(s) THEN n ELSE Len(s))

\* ------------------------------------------------- analyze_data_for_context

\* groupby(col).agg(sales: sum/mean/count, profit: sum/mean).round(0), then
\* the profit-rate column (total profit / total sales * 100).round(1).
KeyAnalysis(d, col) ==
    LET keys == StrKeys(d, col)
        row(k) ==
            LET g == GroupRows(d, col, k)
                total_sales == FRound(FromInt(SumCol(g, "sales")), 1)
                total_profit == FRound(FromInt(SumCol(g, "profit")), 1)
            IN [key |-> k,
                total_sales |-> total_sales,
                avg_sales |-> FRound(FDiv(FromInt(SumCol(g, "sales")), FromInt(Len(g))), 1),
                count |-> Len(g),
                total_profit |-> total_profit,
                avg_profit |-> FRound(FDiv(FromInt(SumCol(g, "profit")), FromInt(Len(g))), 1),
                profit_rate |-> FRound(FMul(FDiv(total_profit, total_sales), FromInt(100)), 10)]
    IN [i \in 1..Len(keys) |-> row(keys[i])]

\* groupby(col).agg(sales: sum, profit: sum, product: count) and the
\* profit-rate column, for the customer analysis.
KeyTotals(d, col) ==
    LET keys == StrKeys(d, col)
        row(k) ==
            LET g == GroupRows(d, col, k)
            IN [key |-> k,
                total_sales |-> FromInt(SumCol(g, "sales")),
                total_profit |-> FromInt(SumCol(g, "profit")),
                count |-> Len(g),
                profit_rate |-> FRound(FMul(FDiv(FromInt(SumCol(g, "profit")),
                                    FromInt(SumCol(g, "sales"))), FromInt(100)), 10)]
    IN [i \in 1..Len(keys) |-> row(keys[i])]

\* groupby(period).agg(sales: sum, profit: sum, product: count) and the
\* profit-rate column.
MonthlyTrend(d) ==
    LET keys == PeriodKeys(d)
        row(k) ==
            LET g == GroupRows(d, "period", k)
            IN [period |-> k,
                sales |-> SumCol(g, "sales"),
                profit |-> SumCol(g, "profit"),
                count |-> Len(g),
                profit_rate |-> FRound(FMul(FDiv(FromInt(SumCol(g, "profit")),
                                    FromInt(SumCol(g, "sales"))), FromInt(100)), 10)]
    IN [i \in 1..Len(keys) |-> row(keys[i])]

BasicStats(d) ==
    [total_records |-> Len(d),
     total_sales |-> SumCol(d, "sales"),
     total_profit |-> SumCol(d, "profit"),
     avg_profit_rate |->
        IF SumCol(d, "sales") > 0
        THEN FMul(FDiv(FromInt(SumCol(d, "profit")), FromInt(SumCol(d, "sales"))),
                  FromInt(100))
        ELSE FromInt(0)]

TopNCustomers == 10

\* sort_values(total sales, ascending=False) of an analysis table: as
\* SortValuesDesc, on the total_sales column.
SortByTotalSalesDesc(g) ==
    { [i \in 1..Len(g) |-> g[p[i]]] : p \in
        { q \in Injections(Len(g)) :
            \A i \in 1..(Len(g) - 1) :
                g[q[i]].total_sales.n >= g[q[i + 1]].total_sales.n } }

\* ------------------------------------------------------------ call_llm_api

\* The number of stored turns the system prompt quotes (messages[-3:]).
MaxTurns == 3

\* DataFrame.head() without an argument keeps 5 rows.
HeadDefault == 5

\* Seeded fault: the slice keeps the oldest turns (messages[:3]).
FirstTurns(msgs, n) == SubSeq(msgs, 1, IF n < Len(msgs) THEN n ELSE Len(msgs))

\* messages[-n:]: the last n turns, all of them when there are fewer.
LastTurns(msgs, n) ==
    SubSeq(msgs, (IF n < Len(msgs) THEN Len(msgs) - n ELSE 0) + 1, Len(msgs))

\* The prefix each quoted turn gets: the user's label for role "user", the
\* assistant's label for any other role.
RoleLabel(role) == IF role = "user" THEN "User: " ELSE "AI: "

\* The chat_history list of call_llm_api, joined into the prompt in order.
ChatHistoryLines(msgs) ==
    LET last == LastTurns(msgs, MaxTurns)
    IN [i \in 1..Len(last) |->
            [label |-> RoleLabel(last[i].role), content |-> last[i].content]]

\* Seeded fault: the new turn is put in front of the stored conversation.
PrependTurn(msgs, role, content) ==
    <<[role |-> role, content |-> content]>> \o msgs

\* st.session_state.messages.append({"role": ..., "content": ...})
AppendTurn(msgs, role, content) ==
    Append(msgs, [role |-> role, content |-> content])

\* Seeded fault: only an answer is stored, an error text is not.
RespondMessagesAnswerOnly(msgs, who, text) ==
    IF who = "chat" /\ text = "answer" THEN AppendTurn(msgs, "assistant", text) ELSE msgs

\* The stored conversation after call_llm_api returned: the chat stores the
\* returned text, whatever it is, as an assistant turn; a button stores
\* nothing.
RespondMessages(msgs, who, text) ==
    IF who = "chat" THEN AppendTurn(msgs, "assistant", text) ELSE msgs

\* The configured endpoint.
LLM_URL == "https://api.openai.com"

\* LLM_URL.startswith("https://api.openai.com")
IsOpenAI(url) == url = "https://api.openai.com"

\* What can happen to the remote request.
LlmEvents == {"answer", "timeout", "connection_error", "http_error", "other_error"}

\* The text call_llm_api returns for an event of the request.  With the
\* official endpoint the openai client makes the request: every failure is
\* an openai exception, none of them a requests exception, and is caught by
\* the last handler.  Otherwise requests.post makes it: a non-200 status is
\* returned as an API error, requests' Timeout and ConnectionError have a
\* handler each, anything else reaches the last handler.
LlmResponse(url, ev) ==
    IF IsOpenAI(url)
    THEN IF ev = "answer" THEN "answer" ELSE "unexpected_error"
    ELSE CASE ev = "answer" -> "answer"
           [] ev = "timeout" -> "timeout"
           [] ev = "connection_error" -> "connection_error"
           [] ev = "http_error" -> "api_error"
           [] OTHER -> "unexpected_error"


\* np.nan in a numeric column: a cell that did not convert (errors='coerce').
NaNum == -999

\* The columns load_data requires.
RequiredColumns == {"period", "product", "staff", "customer", "sales", "cost", "profit"}

\* Day number of the first day of each month (the year has 365 days).
CumDays == <<0, 31, 59, 90, 120, 151, 181, 212, 243, 273, 304, 334>>

MonthStart(i) == CumDays[i] + 1

MonthNames == <<"2023-01", "2023-02", "2023-03", "2023-04", "2023-05", "2023-06",
                "2023-07", "2023-08", "2023-09", "2023-10", "2023-11", "2023-12">>

\* pd.to_datetime(format='%Y-%m', errors='coerce') on one cell: the first day
\* of the month the text names, NaT for any other text.
ToDatetime(s) ==
    IF \E i \in 1..Len(MonthNames) : MonthNames[i] = s
    THEN MonthStart(CHOOSE i \in 1..Len(MonthNames) : MonthNames[i] = s)
    ELSE NaT

\* Timestamp.strftime('%Y-%m'): the name of the month the day lies in.
Strftime(day) ==
    MonthNames[Cardinality({i \in 1..Len(MonthNames) : MonthStart(i) <= day})]

\* The decimal texts of the integers -3 .. 4, in ascending order.
NumberTexts == <<"-3", "-2", "-1", "0", "1", "2", "3", "4">>

\* pd.to_numeric(errors='coerce') on one cell: the integer the text denotes,
\* NaN for any other text.
ToNumeric(s) ==
    IF \E i \in 1..Len(NumberTexts) : NumberTexts[i] = s
    THEN (CHOOSE i \in 1..Len(NumberTexts) : NumberTexts[i] = s) - Len(NumberTexts) \div 2
    ELSE NaNum

\* Lines of the CSV file as text cells: a period that parses or not, a sales
\* amount that is negative, positive or not a number, a gross profit that is
\* negative, equal to sales - cost, off by 1 or off by more.
RawRows ==
    { [period |-> pe, product |-> "ProductA", staff |-> "StaffX",
       customer |-> "CustomerY", sales |-> sa, cost |-> "1", profit |-> gp] :
        pe \in {"2023-01", "2023/13"}, sa \in {"-2", "2", "n/a"},
        gp \in {"-1", "1", "2", "4"} }

\* The files load_data may find: none, one lacking a required column, or one
\* with every column and up to MaxRows lines.
Sources ==
    {[exists |-> FALSE, columns |-> {}, rows |-> <<>>]}
    \cup {[exists |-> TRUE, columns |-> RequiredColumns \ {c},
           rows |-> <<[f \in RequiredColumns \ {c} |-> "1"]>>] : c \in RequiredColumns}
    \cup {[exists |-> TRUE, columns |-> RequiredColumns, rows |-> rs] :
            rs \in SeqsUpTo(RawRows, MaxRows)}

\* The type conversions of load_data, cell by cell: a row stays a row.
ConvertedTable(rows) ==
    [i \in 1..Len(rows) |->
        [period |-> ToDatetime(rows[i].period),
         product |-> rows[i].product,
         staff |-> rows[i].staff,
         customer |-> rows[i].customer,
         sales |-> ToNumeric(rows[i].sales),
         cost |-> ToNumeric(rows[i].cost),
         profit |-> ToNumeric(rows[i].profit)]]

\* Seeded fault: a missing column yields the empty table without an error.
load_data_silent(src) ==
    IF ~src.exists
    THEN [df |-> <<>>, error |-> "file_not_found"]
    ELSE IF RequiredColumns \ src.columns # {}
    THEN [df |-> <<>>, error |-> "none"]
    ELSE [df |-> ConvertedTable(src.rows), error |-> "none"]

\* DataManager.load_data: the table it returns and the st.error it shows.
\* Both except branches return pd.DataFrame(), the empty table.
load_data(src) ==
    IF ~src.exists
    THEN [df |-> <<>>, error |-> "file_not_found"]
    ELSE IF RequiredColumns \ src.columns # {}
    THEN [df |-> <<>>, error |-> "load_error"]
    ELSE [df |-> ConvertedTable(src.rows), error |-> "none"]

\* The loader of the staff, product and AI assistant pages: read_csv and a
\* strict to_datetime, with no try.  read_csv raises on a missing file, the
\* column lookup on a missing period column, to_datetime on a cell that is
\* neither blank nor a month; a numeric column with a cell that is not a
\* number stays text.
page_load_data(src) ==
    IF \/ ~src.exists
       \/ "period" \notin src.columns
       \/ \E i \in 1..Len(src.rows) :
            src.rows[i].period # "" /\ ToDatetime(src.rows[i].period) = NaT
    THEN [df |-> <<>>, raised |-> TRUE]
    ELSE [df |-> [i \in 1..Len(src.rows) |->
                    [f \in src.columns |->
                        IF f = "period" THEN ToDatetime(src.rows[i][f])
                        ELSE IF /\ f \in {"sales", "cost", "profit"}
                                /\ \A k \in 1..Len(src.rows) :
                                        ToNumeric(src.rows[k][f]) # NaNum
                        THEN ToNumeric(src.rows[i][f])
                        ELSE src.rows[i][f]]],
          raised |-> FALSE]

\* @st.cache_data on a loader without hashed arguments (_self is skipped,
\* the page loaders take none): the key does not depend on the file and
\* there is no ttl, so a stored return value is returned from then on.
Cached(entry, fresh) == IF entry # <<>> THEN entry ELSE fresh

\* No loader has run yet.
EmptyCache == [main |-> <<>>, page |-> <<>>]

\* ------------------------------------------------------------- CSV export

\* A datetime64 cell as to_csv writes it: the full date of the first day of
\* the month, and nothing for NaT.
DateTexts == <<"2023-01-01", "2023-02-01", "2023-03-01", "2023-04-01", "2023-05-01",
               "2023-06-01", "2023-07-01", "2023-08-01", "2023-09-01", "2023-10-01",
               "2023-11-01", "2023-12-01">>

DateText(day) ==
    IF day = NaT THEN ""
    ELSE DateTexts[Cardinality({i \in 1..Len(CumDays) : MonthStart(i) <= day})]

\* An integer cell as to_csv writes it, and nothing for NaN.
NumText(n) == IF n = NaNum THEN "" ELSE NumberTexts[n + Len(NumberTexts) \div 2]

\* filtered_df.to_csv(index=False): one line of text cells per row, in the
\* view's order, under the seven column names.
to_csv(view) ==
    [i \in 1..Len(view) |->
        [period |-> DateText(view[i].period),
         product |-> view[i].product,
         staff |-> view[i].staff,
         customer |-> view[i].customer,
         sales |-> NumText(view[i].sales),
         cost |-> NumText(view[i].cost),
         profit |-> NumText(view[i].profit)]]

\* The exported text saved as the file the loader reads.
CsvFile(text) == [exists |-> TRUE, columns |-> RequiredColumns, rows |-> text]

\* Series.sum() of a numeric column: nulls are skipped.
SumSkipNa(d, col) == SumCol(SelectSeq(d, LAMBDA r : r[col] # NaNum), col)

\* Series.min() < 0: the smallest non-null value is negative; a column of
\* nulls only has min() NaN and NaN < 0 is False.
MinIsNegative(d, col) == \E i \in 1..Len(d) : d[i][col] # NaNum /\ d[i][col] < 0

\* abs(profit - (sales - cost)) > 1 on one row; NaN > 1 is False.
ProfitDiffExceeds(r) ==
    /\ r.sales # NaNum /\ r.cost # NaNum /\ r.profit # NaNum
    /\ Abs(r.profit - (r.sales - r.cost)) > 1

\* Series.nunique(): the number of distinct values of a key column.
NUnique(d, col) == Cardinality({d[i][col] : i \in 1..Len(d)})

\* Series.min() and Series.max() of the period column: nulls are skipped,
\* and the result is NaT when no value is left.
MinPeriod(d) ==
    LET S == {d[i].period : i \in 1..Len(d)} \ {NaT}
    IN IF S = {} THEN NaT ELSE CHOOSE x \in S : \A y \in S : x <= y

MaxPeriod(d) ==
    LET S == {d[i].period : i \in 1..Len(d)} \ {NaT}
    IN IF S = {} THEN NaT ELSE CHOOSE x \in S : \A y \in S : x >= y

\* The summary dict of validate_data.
ValidationSummary(d) ==
    [total_records |-> Len(d),
     date_from |-> Strftime(MinPeriod(d)),
     date_to |-> Strftime(MaxPeriod(d)),
     staff_count |-> NUnique(d, "staff"),
     product_count |-> NUnique(d, "product"),
     customer_count |-> NUnique(d, "customer"),
     total_sales |-> SumSkipNa(d, "sales"),
     total_profit |-> SumSkipNa(d, "profit")]

\* (profit_diff > 1).any(): one issue however many rows differ.
ConsistencyIssues(d) ==
    IF \E i \in 1..Len(d) : ProfitDiffExceeds(d[i])
    THEN <<"profit_mismatch">>
    ELSE <<>>

\* The issues of the quality checks, in the order the checks run.
QualityIssues(d) ==
    (IF MinIsNegative(d, "sales") THEN <<"negative_sales">> ELSE <<>>)
    \o (IF MinIsNegative(d, "profit") THEN <<"negative_profit">> ELSE <<>>)
    \o ConsistencyIssues(d)

\* Seeded fault: the flag keeps its initial True whatever the checks found.
IsValidKept(issues) == TRUE

\* `if validation_result['issues']: validation_result['is_valid'] = False`
\* on the flag's initial True.
IsValidAfterChecks(issues) == ~(issues # <<>>)

\* DataManager.validate_data.  min() of a period column without a parsed
\* value is NaT and NaT.strftime raises: the except branch then reports a
\* validation error, with the summary still the empty dict and none of the
\* quality checks run.
validate_data(d) ==
    IF MinPeriod(d) = NaT
    THEN [is_valid |-> FALSE, issues |-> <<"validation_error">>, summary |-> <<>>]
    ELSE [is_valid |-> IsValidAfterChecks(QualityIssues(d)),
          issues |-> QualityIssues(d),
          summary |-> ValidationSummary(d)]

\* Seeded fault: the filter stages drop the rows from the caller's table.
ArgAfterApplyFiltersInPlace(d, view) == view

\* The table the caller passed to apply_filters, after the call: the stages
\* rebind filtered_df, a copy, and nothing assigns into df.
ArgAfterApplyFilters(d, view) == d

\* The table the caller passed to validate_data, after the call: every
\* statement reads df or builds a new Series.
ArgAfterValidate(d) == d

\* --------------------------------------------- call_llm_api: data summary

\* The digest of a non-empty view: the basic statistics and the four tables
\* as they are printed, the rankings through head(), the monthly trend whole.
AnalysisDigest(an) ==
    [kind |-> "analysis",
     basic_stats |-> an.basic_stats,
     staff |-> HeadN(an.staff_analysis, HeadDefault),
     product |-> HeadN(an.product_analysis, HeadDefault),
     monthly |-> an.monthly_trend,
     customer |-> HeadN(an.customer_analysis, HeadDefault)]

\* The summary of the whole dataset used when the view is empty or absent;
\* the rate is printed with one decimal and is not guarded against a zero
\* total (numpy division gives inf or NaN).
WholeDatasetSummary(d) ==
    [kind |-> "overview",
     total_records |-> Len(d),
     date_from |-> Strftime(MinPeriod(d)),
     date_to |-> Strftime(MaxPeriod(d)),
     staff_count |-> NUnique(d, "staff"),
     product_count |-> NUnique(d, "product"),
     customer_count |-> NUnique(d, "customer"),
     total_sales |-> SumCol(d, "sales"),
     total_profit |-> SumCol(d, "profit"),
     avg_profit_rate |->
        FRound(FMul(FDiv(FromInt(SumCol(d, "profit")), FromInt(SumCol(d, "sales"))),
                    FromInt(100)), 10)]

\* ------------------------------------------------------------------ state

VARIABLES
    df,                 \* the loaded dataset
    date_range,         \* the date widget's value: a tuple of 0, 1 or 2 days
    selected_staff,
    selected_product,
    selected_customer,
    filtered_df,        \* the filtered view
    kpi,                \* the KPI cards' numbers
    monthly_data,       \* the monthly time series of the main page
    top_products,       \* the top-10 product ranking
    top_staff,          \* the top-10 staff ranking
    analysis,           \* the result of analyze_data_for_context
    pc,                 \* position in the page script
    source,             \* the CSV file load_data reads
    errors,             \* the messages shown with st.error
    validation_result,  \* what validate_data returned
    warnings,           \* the issues shown with st.warning
    messages,           \* st.session_state.messages, the stored conversation
    caller,             \* what called call_llm_api: the chat input or a button
    chat_history,       \* the labelled history lines of the system prompt
    data_summary,       \* the data summary of the system prompt
    response,           \* what call_llm_api returned
    llm_event,          \* what happened to the request call_llm_api sent
    cache,              \* the st.cache_data entries of the two kinds of loader
    rebuilt,            \* whether the last load ran the loader's body
    csv                 \* the text the CSV download offers

vars == <<df, date_range, selected_staff, selected_product, selected_customer,
          filtered_df, kpi, monthly_data, top_products, top_staff, analysis, pc,
          source, errors, validation_result, warnings,
          messages, caller, chat_history, data_summary, response, llm_event,
          cache, rebuilt, csv>>

loadvars == <<source, errors, validation_result, warnings, cache, rebuilt, csv>>

chatvars == <<messages, caller, chat_history, data_summary, response, llm_event>>

widgets == <<date_range, selected_staff, selected_product, selected_customer>>

outputs == <<kpi, monthly_data, top_products, top_staff, analysis>>

\* Values the date argument takes: absent, a start date only, or two dates.
DateRanges == {<<>>} \cup {<<a>> : a \in {1}} \cup {<<a, b>> : a \in StartDays, b \in EndDays}

StaffChoices == {None, Some(AllSentinel), Some("StaffX"), Some("staffx")}

ProductChoices == {None, Some(AllSentinel), Some("ProductA")}

CustomerChoices == {None, Some(AllSentinel), Some("CustomerY")}

\* The selections used where the aggregates are examined: a start date only
\* (no date stage), the whole range, or the second month alone; one product
\* or all of them.
AggDateRanges == {<<1>>, <<1, 32>>, <<32, 32>>}

AggProductChoices == {Some(AllSentinel), Some("ProductA")}

\* The pages stop when the loaded table is empty, so a dataset has rows.
Datasets(S) == SeqsUpTo(S, MaxRows) \ {<<>>}

InitPage ==
    /\ date_range = <<>>
    /\ selected_staff = None
    /\ selected_product = None
    /\ selected_customer = None
    /\ filtered_df = <<>>
    /\ kpi = <<>>
    /\ monthly_data = <<>>
    /\ top_products = <<>>
    /\ top_staff = <<>>
    /\ analysis = <<>>
    /\ pc = "widgets"
    /\ source = <<>>
    /\ errors = {}
    /\ validation_result = <<>>
    /\ warnings = <<>>
    /\ messages = <<>>
    /\ caller = "none"
    /\ chat_history = <<>>
    /\ data_summary = <<>>
    /\ response = "none"
    /\ llm_event = "none"
    /\ cache = EmptyCache
    /\ rebuilt = FALSE
    /\ csv = <<>>

InitFilter == df \in Datasets(FilterRows) /\ InitPage

\* The main page before load_data has run.
InitLoad ==
    /\ source \in Sources
    /\ df = <<>>
    /\ pc = "load"
    /\ date_range = <<>>
    /\ selected_staff = None
    /\ selected_product = None
    /\ selected_customer = None
    /\ filtered_df = <<>>
    /\ kpi = <<>>
    /\ monthly_data = <<>>
    /\ top_products = <<>>
    /\ top_staff = <<>>
    /\ analysis = <<>>
    /\ errors = {}
    /\ validation_result = <<>>
    /\ warnings = <<>>
    /\ messages = <<>>
    /\ caller = "none"
    /\ chat_history = <<>>
    /\ data_summary = <<>>
    /\ response = "none"
    /\ llm_event = "none"
    /\ cache = EmptyCache
    /\ rebuilt = FALSE
    /\ csv = <<>>

InitAgg == df \in Datasets(AggRows) /\ InitPage

\* The files of the caching runs: those of at most one line.
CacheSources == {src \in Sources : Len(src.rows) <= 1}

\* A run about to load, on the main page or on a page with its own loader.
InitCache ==
    /\ source \in CacheSources
    /\ df = <<>>
    /\ pc \in {"load", "page_load"}
    /\ date_range = <<>>
    /\ selected_staff = None
    /\ selected_product = None
    /\ selected_customer = None
    /\ filtered_df = <<>>
    /\ kpi = <<>>
    /\ monthly_data = <<>>
    /\ top_products = <<>>
    /\ top_staff = <<>>
    /\ analysis = <<>>
    /\ errors = {}
    /\ validation_result = <<>>
    /\ warnings = <<>>
    /\ messages = <<>>
    /\ caller = "none"
    /\ chat_history = <<>>
    /\ data_summary = <<>>
    /\ response = "none"
    /\ llm_event = "none"
    /\ cache = EmptyCache
    /\ rebuilt = FALSE
    /\ csv = <<>>

\* Rows for the conversation: a null or parsed period, sales of 0 or 2.
ChatRows == { Row(pe, "ProductA", "StaffX", "CustomerY", sa, 1) : pe \in Periods, sa \in {0, 2} }

\* A dataset with one row for each of the first n months.
MonthSeries(n) ==
    [i \in 1..n |-> Row(MonthStart(i), "ProductA", "StaffX", "CustomerY", 2, 1)]

\* The AI page has no stop on an empty table: the dataset may have no rows.
ChatDatasets == SeqsUpTo(ChatRows, MaxRows) \cup {MonthSeries(n) : n \in 3..MaxMonths}

\* Two-date selections, the whole year among them, and a start date only.
ChatDateRanges == {<<1>>, <<1, 32>>, <<32, 32>>, <<1, 365>>}

InitChat == df \in ChatDatasets /\ InitPage

\* ------------------------------------------------------------- main page

\* The page loads the table through the cache and stops with an error when
\* it is empty.
LoadData ==
    /\ pc = "load"
    /\ LET res == Cached(cache.main, load_data(source))
       IN /\ cache' = [cache EXCEPT !.main = res]
          /\ rebuilt' = (cache.main = <<>>)
          /\ df' = res.df
          /\ errors' = (IF res.error = "none" THEN {} ELSE {res.error})
                        \cup (IF Len(res.df) = 0 THEN {"no_data"} ELSE {})
          /\ pc' = IF Len(res.df) = 0 THEN "stopped" ELSE "validate"
    /\ UNCHANGED <<widgets, filtered_df, outputs, source, validation_result,
                   warnings, csv, chatvars>>

\* A page with its own loader (staff, product, AI assistant): the table comes
\* through that loader's cache; an exception of the loader is not caught and
\* ends the run, and nothing is cached for it.
PageLoadData ==
    /\ pc = "page_load"
    /\ LET res == Cached(cache.page, page_load_data(source))
       IN IF res.raised
          THEN /\ pc' = "crashed"
               /\ rebuilt' = TRUE
               /\ UNCHANGED <<df, cache>>
          ELSE /\ cache' = [cache EXCEPT !.page = res]
               /\ rebuilt' = (cache.page = <<>>)
               /\ df' = res.df
               /\ pc' = "widgets"
    /\ UNCHANGED <<widgets, filtered_df, outputs, source, errors, validation_result,
                   warnings, csv, chatvars>>

\* The CSV file is replaced, removed or created while the app is running.
ChangeSource(srcs) ==
    /\ \E src \in srcs \ {source} : source' = src
    /\ UNCHANGED <<df, widgets, filtered_df, outputs, pc, errors, validation_result,
                   warnings, cache, rebuilt, csv, chatvars>>

\* The user opens the main page or another page again: the script starts
\* from the top; the cache entries outlive the run.
Reload ==
    /\ pc \in {"validate", "widgets", "stopped", "crashed"}
    /\ pc' \in {"load", "page_load"}
    /\ df' = <<>>
    /\ errors' = {}
    /\ UNCHANGED <<widgets, filtered_df, outputs, source, validation_result,
                   warnings, cache, rebuilt, csv, chatvars>>

ValidateData ==
    /\ pc = "validate"
    /\ validation_result' = validate_data(df)
    /\ df' = ArgAfterValidate(df)
    /\ pc' = "report"
    /\ UNCHANGED <<widgets, filtered_df, outputs, source, errors, warnings, cache,
                   rebuilt, csv, chatvars>>

\* The issues are shown as warnings and the page goes on; the optional
\* sidebar summary reads keys of the summary dict, which raises KeyError on
\* the empty dict.
ShowValidation ==
    /\ pc = "report"
    /\ warnings' = IF validation_result.is_valid THEN <<>> ELSE validation_result.issues
    /\ \E checked \in BOOLEAN :
        pc' = IF checked /\ validation_result.summary = <<>> THEN "crashed" ELSE "widgets"
    /\ UNCHANGED <<df, widgets, filtered_df, outputs, source, errors,
                   validation_result, cache, rebuilt, csv, chatvars>>


\* The sidebar selections and FilterManager.apply_filters; the page stops
\* with a warning when the view is empty.
ApplyFilters(drs, sts, prs, cus) ==
    /\ pc = "widgets"
    /\ \E dr \in drs, st \in sts, pr \in prs, cu \in cus :
        /\ date_range' = dr
        /\ selected_staff' = st
        /\ selected_product' = pr
        /\ selected_customer' = cu
        /\ filtered_df' = apply_filters(df, dr, st, pr, cu)
    /\ df' = ArgAfterApplyFilters(df, filtered_df')
    /\ pc' = IF Len(filtered_df') = 0 THEN "stopped" ELSE "kpi"
    /\ UNCHANGED <<outputs, loadvars, chatvars>>

CreateKpiCards ==
    /\ pc = "kpi"
    /\ kpi' = KpiCards(filtered_df)
    /\ pc' = "monthly"
    /\ UNCHANGED <<df, widgets, filtered_df, monthly_data, top_products, top_staff, analysis>>
    /\ UNCHANGED <<loadvars, chatvars>>

MonthlyAggregation ==
    /\ pc = "monthly"
    /\ monthly_data' = MonthlyData(filtered_df)
    /\ pc' = "top_products"
    /\ UNCHANGED <<df, widgets, filtered_df, kpi, top_products, top_staff, analysis>>
    /\ UNCHANGED <<loadvars, chatvars>>

TopProducts ==
    /\ pc = "top_products"
    /\ \E s \in SortValuesDesc(GroupSales(filtered_df, "product")) :
        top_products' = HeadN(s, TopNMain)
    /\ pc' = "top_staff"
    /\ UNCHANGED <<df, widgets, filtered_df, kpi, monthly_data, top_staff, analysis>>
    /\ UNCHANGED <<loadvars, chatvars>>

TopStaff ==
    /\ pc = "top_staff"
    /\ \E s \in SortValuesDesc(GroupSales(filtered_df, "staff")) :
        top_staff' = HeadN(s, TopNMain)
    /\ pc' = "export"
    /\ UNCHANGED <<df, widgets, filtered_df, kpi, monthly_data, top_products, analysis>>
    /\ UNCHANGED <<loadvars, chatvars>>

\* The rest of the page: the CSV text of the download button, the table,
\* and the sidebar filter information, which reads date_range[1] and so
\* raises IndexError unless the widget holds two dates.
ExportCsv ==
    /\ pc = "export"
    /\ csv' = to_csv(filtered_df)
    /\ pc' = IF Len(date_range) = 2 THEN "done" ELSE "crashed"
    /\ UNCHANGED <<df, widgets, filtered_df, outputs, source, errors, validation_result,
                   warnings, cache, rebuilt, chatvars>>

\* Streamlit runs the page script again from the top on the next interaction.
Rerun ==
    /\ pc \in {"stopped", "done", "crashed"}
    /\ pc' = "widgets"
    /\ date_range' = <<>>
    /\ selected_staff' = None
    /\ selected_product' = None
    /\ selected_customer' = None
    /\ filtered_df' = <<>>
    /\ kpi' = <<>>
    /\ monthly_data' = <<>>
    /\ top_products' = <<>>
    /\ top_staff' = <<>>
    /\ analysis' = <<>>
    /\ caller' = "none"
    /\ chat_history' = <<>>
    /\ data_summary' = <<>>
    /\ response' = "none"
    /\ llm_event' = "none"
    /\ csv' = <<>>
    /\ UNCHANGED <<df, source, errors, validation_result, warnings, cache, rebuilt,
                   messages>>

\* -------------------------------------------------------- AI assistant page

\* The page's own filter stage: date range, staff, product (no customer).
AIFilterView(d, dr, st, pr) ==
    LET f1 == IF Len(dr) = 2
              THEN SelectSeq(d, LAMBDA r : DateMask(r.period, dr[1], dr[2]))
              ELSE d
        f2 == IF st # AllSentinel THEN SelectSeq(f1, LAMBDA r : r.staff = st) ELSE f1
    IN IF pr # AllSentinel THEN SelectSeq(f2, LAMBDA r : r.product = pr) ELSE f2

\* The filter stage and the filter_context text, which reads date_range[1]
\* and so raises IndexError unless the widget holds two dates.
AIFilter(drs, prs) ==
    /\ pc = "widgets"
    /\ \E dr \in drs, pr \in prs :
        /\ date_range' = dr
        /\ selected_staff' = Some(AllSentinel)
        /\ selected_product' = pr
        /\ filtered_df' = AIFilterView(df, dr, AllSentinel, pr[1])
    /\ pc' = IF Len(date_range') # 2 THEN "crashed" ELSE "ready"
    /\ UNCHANGED <<df, selected_customer, outputs, loadvars, chatvars>>

\* The chat input: the prompt is stored as a user turn, then call_llm_api
\* runs.
ChatSubmit(prompts) ==
    /\ pc = "ready"
    /\ Len(messages) < MaxMessages
    /\ \E q \in prompts : messages' = AppendTurn(messages, "user", q)
    /\ caller' = "chat"
    /\ pc' = "history"
    /\ UNCHANGED <<df, widgets, filtered_df, outputs, loadvars, chat_history,
                   data_summary, response,
                   llm_event>>

\* A quick-analysis button: call_llm_api runs on a fixed question and the
\* answer is shown with st.info; nothing is stored.
QuickAnalysis ==
    /\ pc = "ready"
    /\ caller' = "button"
    /\ pc' = "history"
    /\ UNCHANGED <<df, widgets, filtered_df, outputs, loadvars, messages,
                   chat_history, data_summary, response,
                   llm_event>>

\* call_llm_api, first part: the quoted conversation history.
BuildChatHistory ==
    /\ pc = "history"
    /\ chat_history' = ChatHistoryLines(messages)
    /\ pc' = IF Len(filtered_df) > 0 THEN "context" ELSE "overview"
    /\ UNCHANGED <<df, widgets, filtered_df, outputs, loadvars, messages, caller,
                   data_summary, response,
                   llm_event>>

\* call_llm_api with a non-empty view: analyze_data_for_context and the
\* digest printed from it.
AnalyzeDataForContext ==
    /\ pc = "context"
    /\ \E sa \in SortByTotalSalesDesc(KeyAnalysis(filtered_df, "staff")),
          pa \in SortByTotalSalesDesc(KeyAnalysis(filtered_df, "product")),
          ca \in SortByTotalSalesDesc(KeyTotals(filtered_df, "customer")) :
        analysis' = [basic_stats |-> BasicStats(filtered_df),
                     staff_analysis |-> sa,
                     product_analysis |-> pa,
                     monthly_trend |-> MonthlyTrend(filtered_df),
                     customer_analysis |-> HeadN(ca, TopNCustomers)]
    /\ data_summary' = AnalysisDigest(analysis')
    /\ pc' = "llm"
    /\ UNCHANGED <<df, widgets, filtered_df, kpi, monthly_data, top_products, top_staff>>
    /\ UNCHANGED <<loadvars, messages, caller, chat_history, response,
                   llm_event>>

\* call_llm_api with an empty view: the summary of the whole dataset df.
\* When df has no parsed period, min() is NaT and NaT.strftime raises; the
\* last except branch of call_llm_api returns its error text.
DatasetOverview ==
    /\ pc = "overview"
    /\ IF MinPeriod(df) = NaT
       THEN /\ response' = "unexpected_error"
            /\ pc' = "respond"
            /\ UNCHANGED data_summary
       ELSE /\ data_summary' = WholeDatasetSummary(df)
            /\ pc' = "llm"
            /\ UNCHANGED response
    /\ UNCHANGED <<df, widgets, filtered_df, outputs, loadvars, messages, caller,
                   chat_history,
                   llm_event>>

\* call_llm_api, last part: the request, whose answer or failure text is
\* returned.
LlmCall ==
    /\ pc = "llm"
    /\ \E ev \in LlmEvents :
        /\ llm_event' = ev
        /\ response' = LlmResponse(LLM_URL, ev)
    /\ pc' = "respond"
    /\ UNCHANGED <<df, widgets, filtered_df, outputs, loadvars, messages, caller,
                   chat_history, data_summary>>

\* Back in the page: the chat stores the returned text as an assistant turn,
\* a button only shows it.
Respond ==
    /\ pc = "respond"
    /\ messages' = RespondMessages(messages, caller, response)
    /\ pc' = "done"
    /\ UNCHANGED <<df, widgets, filtered_df, outputs, loadvars, caller,
                   chat_history, data_summary, response,
                   llm_event>>

\* The clear button empties the stored conversation and reruns the page.
ClearHistory ==
    /\ pc = "ready"
    /\ messages' = <<>>
    /\ pc' = "done"
    /\ UNCHANGED <<df, widgets, filtered_df, outputs, loadvars, caller,
                   chat_history, data_summary, response,
                   llm_event>>

\* --------------------------------------------------------- specifications

\* apply_filters over datasets that vary in every filtered column.
NextFilter ==
    \/ ApplyFilters(DateRanges, StaffChoices, ProductChoices, CustomerChoices)
    \/ Rerun

SpecFilter == InitFilter /\ [][NextFilter]_vars

\* The main page from the CSV file to the filtered view.
NextLoad ==
    \/ LoadData
    \/ ValidateData
    \/ ShowValidation
    \/ ApplyFilters(AggDateRanges, {Some(AllSentinel)}, {Some(AllSentinel)},
                    {Some(AllSentinel)})

SpecLoad == InitLoad /\ [][NextLoad]_vars

\* Loads on the pages while the CSV file changes underneath.
NextCache ==
    \/ LoadData
    \/ PageLoadData
    \/ ChangeSource(CacheSources)
    \/ Reload

SpecCache == InitCache /\ [][NextCache]_vars

\* The main page over datasets that vary in period, product and amounts.
NextMain ==
    \/ ApplyFilters(AggDateRanges, {Some(AllSentinel)}, AggProductChoices,
                    {Some(AllSentinel)})
    \/ CreateKpiCards
    \/ MonthlyAggregation
    \/ TopProducts
    \/ TopStaff
    \/ ExportCsv
    \/ Rerun

SpecMain == InitAgg /\ [][NextMain]_vars

\* The AI assistant page over the same datasets.
NextAI ==
    \/ AIFilter(AggDateRanges, AggProductChoices)
    \/ QuickAnalysis
    \/ BuildChatHistory
    \/ AnalyzeDataForContext
    \/ DatasetOverview
    \/ LlmCall
    \/ Respond
    \/ Rerun

SpecAI == InitAgg /\ [][NextAI]_vars

\* The AI assistant page with its conversation, over datasets that may be
\* empty, may have no parsed period, or have one row per month.
NextChat ==
    \/ AIFilter(ChatDateRanges, {Some(AllSentinel)})
    \/ ChatSubmit({"q1", "q2"})
    \/ QuickAnalysis
    \/ BuildChatHistory
    \/ AnalyzeDataForContext
    \/ DatasetOverview
    \/ LlmCall
    \/ Respond
    \/ ClearHistory
    \/ Rerun

SpecChat == InitChat /\ [][NextChat]_vars

Next == NextCache \/ NextChat \/ NextFilter \/ NextLoad \/ NextMain \/ NextAI

Spec == (InitFilter \/ InitLoad \/ InitAgg \/ InitChat \/ InitCache) /\ [][Next]_vars

\* ------------------------------------------------------------ properties

Filtered == pc # "widgets"

KpiDone == pc \in {"monthly", "top_products", "top_staff", "export", "done", "crashed"}

MonthlyDone == pc \in {"top_products", "top_staff", "export", "done", "crashed"}

\* A key selection that constrains: a value other than the sentinel.
Constrains(o) == o # None /\ o[1] # AllSentinel

\* A row meets every active constraint of the current selections.
Satisfies(r) ==
    /\ Len(date_range) = 2 =>
        r.period # NaT /\ date_range[1] <= r.period /\ r.period <= date_range[2]
    /\ Constrains(selected_staff) => r.staff = selected_staff[1]
    /\ Constrains(selected_product) => r.product = selected_product[1]
    /\ Constrains(selected_customer) => r.customer = selected_customer[1]

Kept == {i \in 1..Len(df) : Satisfies(df[i])}

\* C1: apply_filters is idempotent: applying the same selections to the
\* filtered view gives the filtered view again, same rows in the same order.
C1_Idempotent ==
    Filtered =>
        apply_filters(filtered_df, date_range, selected_staff, selected_product,
                      selected_customer) = filtered_df

C1_Witness ==
    /\ Filtered
    /\ Len(df) = 2
    /\ Len(filtered_df) = 1
    /\ Len(date_range) = 2
    /\ Constrains(selected_staff)

\* C2: the filtered view holds exactly the rows of the dataset that meet all
\* active constraints (date bounds inclusive, exact key equality), each once
\* and in the dataset's order.
C2_ExactSubsequence ==
    Filtered =>
        /\ Len(filtered_df) = Cardinality(Kept)
        /\ \A i \in Kept : filtered_df[Cardinality({j \in Kept : j <= i})] = df[i]

C2_Witness ==
    /\ Filtered
    /\ Len(df) = 2
    /\ Len(filtered_df) = 2
    /\ df[1] # df[2]
    /\ Len(date_range) = 2
    /\ df[1].period = date_range[2]
    /\ df[2].period = date_range[1]
    /\ Constrains(selected_product)

\* C3: the monthly totals add up to the totals of the view they are grouped
\* from, for sales and for gross profit, rows with a null period included.
C3_MonthlyPreservesTotals ==
    MonthlyDone =>
        /\ SumCol(monthly_data, "sales") = SumCol(filtered_df, "sales")
        /\ SumCol(monthly_data, "profit") = SumCol(filtered_df, "profit")

C5_PctChangeNullOnZero ==
    MonthlyDone =>
        \A i \in 2..Len(monthly_data) :
            /\ monthly_data[i - 1].sales = 0 => IsNull(monthly_data[i].pct_sales)
            /\ monthly_data[i - 1].profit = 0 => IsNull(monthly_data[i].pct_profit)

\* C6: in every group of the staff, product, month and customer analyses the
\* profit rate is 0 when the group's total sales is 0.
C6_ZeroSalesZeroRate ==
    (pc = "done" /\ analysis # <<>>) =>
        /\ \A i \in 1..Len(analysis.staff_analysis) :
            analysis.staff_analysis[i].total_sales.n = 0
                => analysis.staff_analysis[i].profit_rate = FromInt(0)
        /\ \A i \in 1..Len(analysis.product_analysis) :
            analysis.product_analysis[i].total_sales.n = 0
                => analysis.product_analysis[i].profit_rate = FromInt(0)
        /\ \A i \in 1..Len(analysis.customer_analysis) :
            analysis.customer_analysis[i].total_sales.n = 0
                => analysis.customer_analysis[i].profit_rate = FromInt(0)
        /\ \A i \in 1..Len(analysis.monthly_trend) :
            analysis.monthly_trend[i].sales = 0
                => analysis.monthly_trend[i].profit_rate = FromInt(0)

\* C7: the overall profit rate is total profit / total sales * 100 whenever
\* total sales is not 0, negative totals included, and 0 when it is 0.
C7_OverallProfitRate ==
    KpiDone =>
        /\ kpi.profit_rate.kind = "num"
        /\ kpi.total_sales # 0 =>
             kpi.profit_rate.n * kpi.total_sales
                = kpi.total_profit * 100 * kpi.profit_rate.d
        /\ kpi.total_sales = 0 => kpi.profit_rate = FromInt(0)

\* Descending by value, equal values in ascending key order.
RankedBefore(a, b) ==
    a.value > b.value \/ (a.value = b.value /\ KeyRank(a.key) < KeyRank(b.key))

IsTopN(top, groups, n) ==
    /\ Len(top) = (IF n < Len(groups) THEN n ELSE Len(groups))
    /\ \A i \in 1..Len(top) : \E k \in 1..Len(groups) : top[i] = groups[k]
    /\ \A i, j \in 1..Len(top) : i < j => RankedBefore(top[i], top[j])
    /\ \A k \in 1..Len(groups) :
        (\E i \in 1..Len(top) : top[i] = groups[k])
        \/ \A i \in 1..Len(top) : RankedBefore(top[i], groups[k])

C9_InvertedRangeEmpty ==
    (Filtered /\ Len(date_range) = 2 /\ date_range[1] > date_range[2]) =>
        filtered_df = <<>> /\ pc = "stopped"

C9_Witness ==
    /\ pc = "stopped"
    /\ Len(date_range) = 2
    /\ date_range[1] > date_range[2]
    /\ ~Constrains(selected_staff)
    /\ ~Constrains(selected_product)
    /\ ~Constrains(selected_customer)
    /\ \E i \in 1..Len(df) :
        date_range[2] <= df[i].period /\ df[i].period <= date_range[1]

\* C10: for the staff, product and customer filters, selecting the sentinel
\* gives the view that passing no value for that filter gives, also when a
\* row's key is the sentinel string.
C10_SentinelIsAbsence ==
    Filtered =>
        /\ selected_staff = Some(AllSentinel) =>
            filtered_df = apply_filters(df, date_range, None, selected_product,
                                        selected_customer)
        /\ selected_product = Some(AllSentinel) =>
            filtered_df = apply_filters(df, date_range, selected_staff, None,
                                        selected_customer)
        /\ selected_customer = Some(AllSentinel) =>
            filtered_df = apply_filters(df, date_range, selected_staff,
                                        selected_product, None)

C10_Witness ==
    /\ Filtered
    /\ selected_staff = Some(AllSentinel)
    /\ selected_product = Some(AllSentinel)
    /\ selected_customer = Some(AllSentinel)
    /\ Len(df) = 2
    /\ Len(filtered_df) = 2
    /\ df[1].staff = AllSentinel /\ df[2].staff # AllSentinel
    /\ df[1].product # AllSentinel /\ df[2].product = AllSentinel
    /\ df[1].customer = AllSentinel /\ df[2].customer # AllSentinel

\* ------------------------------------------- properties: load and validation

\* load_data has returned a table built from a file with every column.
Loaded == pc # "load" /\ source.exists /\ RequiredColumns \ source.columns = {}

Validated == validation_result # <<>>

\* The text of a period cell names a month.
Parses(s) == \E i \in 1..Len(MonthNames) : MonthNames[i] = s

\* The text of an amount cell is a number.
IsNumeric(s) == s \in {"-2", "-1", "0", "1", "2", "4"}

\* Number of entries of a report's issue list equal to x.
CountIssue(x) == Len(SelectSeq(validation_result.issues, LAMBDA e : e = x))

C12_MissingColumnNoDataset ==
    (pc # "load" /\ source.exists /\ RequiredColumns \ source.columns # {}) =>
        /\ df = <<>>
        /\ "load_error" \in errors
        /\ pc = "stopped"
        /\ validation_result = <<>>
        /\ warnings = <<>>
        /\ filtered_df = <<>>
        /\ kpi = <<>> /\ monthly_data = <<>> /\ top_products = <<>> /\ top_staff = <<>>

C12_Witness ==
    /\ pc = "stopped"
    /\ source.exists
    /\ Cardinality(RequiredColumns \ source.columns) = 1
    /\ errors = {"load_error", "no_data"}

\* C13: a row whose period does not parse is kept with a null period and the
\* row count is unchanged; when every row's period fails to parse, the load
\* fails with an error and no dataset is produced.
C13_UnparsablePeriods ==
    Loaded =>
        IF source.rows # <<>> /\ \A i \in 1..Len(source.rows) : ~Parses(source.rows[i].period)
        THEN df = <<>> /\ errors # {} /\ pc = "stopped"
        ELSE /\ Len(df) = Len(source.rows)
             /\ \A i \in 1..Len(df) :
                    ~Parses(source.rows[i].period) => df[i].period = NaT

\* C14: a non-numeric cell of a numeric column loads as null, and the
\* validation report of that dataset carries a data-quality issue for the
\* null values.
C14_NullValuesReported ==
    (Loaded /\ \E i \in 1..Len(source.rows) : ~IsNumeric(source.rows[i].sales)) =>
        /\ Len(df) = Len(source.rows)
        /\ \A i \in 1..Len(df) : ~IsNumeric(source.rows[i].sales) => df[i].sales = NaNum
        /\ Validated =>
            \E k \in 1..Len(validation_result.issues) :
                validation_result.issues[k] \notin
                    {"negative_sales", "negative_profit", "profit_mismatch",
                     "validation_error"}

\* C15: the report carries exactly one profit-consistency issue when at
\* least one row with all three amounts present has gross profit differing
\* from sales - cost by more than 1, and none when no such row does; the
\* issue does not keep the page from going on with the dataset.
C15_OneConsistencyIssue ==
    Validated =>
        /\ CountIssue("profit_mismatch") =
             IF \E i \in 1..Len(df) :
                    /\ df[i].sales # NaNum /\ df[i].cost # NaNum /\ df[i].profit # NaNum
                    /\ Abs(df[i].profit - (df[i].sales - df[i].cost)) > 1
             THEN 1 ELSE 0
        /\ CountIssue("profit_mismatch") > 0 => pc # "crashed"

\* C16: negative sales or negative gross profit give one issue per affected
\* column; the report still carries the full summary, and after the warning
\* the page goes on to the filters.
C16_NegativesReportedNotBlocked ==
    Validated =>
        LET negSales == \E i \in 1..Len(df) : df[i].sales # NaNum /\ df[i].sales < 0
            negProfit == \E i \in 1..Len(df) : df[i].profit # NaNum /\ df[i].profit < 0
        IN /\ CountIssue("negative_sales") = IF negSales THEN 1 ELSE 0
           /\ CountIssue("negative_profit") = IF negProfit THEN 1 ELSE 0
           /\ (negSales \/ negProfit) =>
                /\ validation_result.summary # <<>>
                /\ validation_result.summary.total_records = Len(df)
                /\ pc # "crashed"
                /\ pc # "report" => warnings = validation_result.issues

\* ------------------------------------------------ properties: call_llm_api

\* call_llm_api has built (or failed to build) the data summary.
SummaryStepDone == caller # "none" /\ pc \in {"llm", "respond", "done"}

\* C17: when the view passed to call_llm_api is empty, the data summary is
\* the summary of the whole, unfiltered dataset: record count, date range,
\* staff, product and customer counts, total sales, total profit and profit
\* rate; it is never missing.
C17_EmptyViewWholeSummary ==
    (SummaryStepDone /\ Len(filtered_df) = 0) =>
        /\ data_summary # <<>>
        /\ data_summary.kind = "overview"
        /\ data_summary.total_records = Len(df)
        /\ \E i, j \in 1..Len(df) :
            /\ df[i].period # NaT /\ df[j].period # NaT
            /\ \A k \in 1..Len(df) :
                df[k].period # NaT => df[i].period <= df[k].period /\ df[k].period <= df[j].period
            /\ ToDatetime(data_summary.date_from) = df[i].period
            /\ ToDatetime(data_summary.date_to) = df[j].period
        /\ data_summary.staff_count = Cardinality({df[i].staff : i \in 1..Len(df)})
        /\ data_summary.product_count = Cardinality({df[i].product : i \in 1..Len(df)})
        /\ data_summary.customer_count = Cardinality({df[i].customer : i \in 1..Len(df)})
        /\ data_summary.total_sales = SumCol(df, "sales")
        /\ data_summary.total_profit = SumCol(df, "profit")
        /\ SumCol(df, "sales") # 0 =>
            /\ data_summary.avg_profit_rate.kind = "num"
            /\ 20 * Abs(data_summary.avg_profit_rate.n * SumCol(df, "sales")
                        - 100 * SumCol(df, "profit") * data_summary.avg_profit_rate.d)
                 <= data_summary.avg_profit_rate.d * Abs(SumCol(df, "sales"))

\* C18: in the digest of a non-empty view each of the four sections (staff
\* ranking, product ranking, monthly trend, customer ranking) has at most a
\* fixed number of rows, no more than 10, whatever the view holds.
C18_SectionsCapped ==
    (data_summary # <<>> /\ data_summary.kind = "analysis") =>
        /\ Len(data_summary.staff) <= 10
        /\ Len(data_summary.product) <= 10
        /\ Len(data_summary.monthly) <= 10
        /\ Len(data_summary.customer) <= 10

\* C19: the quoted history is exactly the last 3 stored turns, all of them
\* when fewer are stored, in chronological order, each labelled by its role;
\* older turns are absent.
C19_HistoryWindow ==
    (caller # "none" /\ pc \in {"context", "overview", "llm", "respond"}) =>
        LET n == Len(messages)
            k == IF n < 3 THEN n ELSE 3
        IN /\ Len(chat_history) = k
           /\ \A i \in 1..k :
                /\ chat_history[i].content = messages[n - k + i].content
                /\ chat_history[i].label =
                     IF messages[n - k + i].role = "user" THEN "User: " ELSE "AI: "

C19_Witness ==
    /\ pc = "llm"
    /\ Len(messages) = 4
    /\ Len(chat_history) = 3
    /\ messages[1].content # messages[3].content
    /\ chat_history[1].label = "AI: "

\* C20: building the data summary never fails on degenerate input (an empty
\* view, an empty dataset, a dataset whose periods are all null, total sales
\* of 0): whenever call_llm_api has run, a data summary has been produced.
C20_SummaryAlwaysBuilt ==
    (caller # "none" /\ pc \in {"respond", "done"}) => data_summary # <<>>

\* ------------------------------------------------- properties: the loaders

\* C21: a load returns the dataset built from the content the file has at
\* that load, on the main page and on the pages with their own loader, and
\* a load whose cached result is what the file still gives does not run the
\* loader again; a stale dataset or a cached failure is never returned.
C21_LoadFollowsSource ==
    [][/\ (pc = "load" /\ pc' # "load") =>
            /\ df' = load_data(source).df
            /\ (cache.main # <<>> /\ cache.main = load_data(source)) => ~rebuilt'
       /\ (pc = "page_load" /\ pc' # "page_load") =>
            /\ page_load_data(source).raised => pc' = "crashed"
            /\ ~page_load_data(source).raised =>
                /\ df' = page_load_data(source).df
                /\ (cache.page # <<>> /\ cache.page = page_load_data(source)) => ~rebuilt'
      ]_vars

\* C22: on every page, a load that finds the file missing or lacking a
\* required column ends with the empty dataset and an error message shown,
\* never with an uncaught exception.
C22_LoadFailureReported ==
    [][((pc \in {"load", "page_load"} /\ pc' \notin {"load", "page_load"})
        /\ (~source.exists \/ RequiredColumns \ source.columns # {})) =>
            /\ pc' # "crashed"
            /\ df' = <<>>
            /\ errors' # {}
      ]_vars

\* --------------------------------------------------- properties: CSV export

\* C23: the CSV text exported from the filtered view, loaded again by
\* load_data, gives the view back: the same rows in the same order with the
\* same values in all seven columns, the period parsed back to its month.
C23_ExportRoundTrip ==
    csv # <<>> =>
        /\ load_data(CsvFile(csv)).error = "none"
        /\ load_data(CsvFile(csv)).df = filtered_df

\* ------------------------------------------------- properties: call_llm_api

\* C24: whatever happened to the remote request, call_llm_api has returned
\* a text, and each kind of outcome has its own text: the answer on
\* success, the timeout message for a timeout, the connection message for a
\* connection failure, the API error for a non-200 status, and the
\* unexpected-error message for anything else.
C24_FailureKindsDistinguished ==
    (pc = "respond" /\ llm_event # "none") =>
        response = CASE llm_event = "answer" -> "answer"
                     [] llm_event = "timeout" -> "timeout"
                     [] llm_event = "connection_error" -> "connection_error"
                     [] llm_event = "http_error" -> "api_error"
                     [] OTHER -> "unexpected_error"

\* ------------------------------------------------- properties: chat history

\* The chat input's call of call_llm_api is under way: the prompt is stored
\* and its reply is not yet.
ChatCallUnderWay ==
    caller = "chat" /\ pc \in {"history", "context", "overview", "llm", "respond"}

\* C25: a step changes the stored conversation only by appending one turn at
\* its end or by the clear button emptying it; the turns already stored keep
\* their content and order, and building the quoted history window leaves
\* the stored conversation as it is.
C25_HistoryAppendOnly ==
    [][/\ \/ messages' = messages
          \/ /\ Len(messages') = Len(messages) + 1
             /\ SubSeq(messages', 1, Len(messages)) = messages
          \/ pc = "ready" /\ pc' = "done" /\ messages' = <<>>
       /\ (pc = "history") => (messages' = messages)
      ]_vars

C25_Witness ==
    /\ pc = "done"
    /\ caller = "chat"
    /\ Len(messages) = 4
    /\ Len(chat_history) = MaxTurns
    /\ messages[1].content # messages[3].content

C27_ValidIffNoIssues ==
    Validated =>
        /\ validation_result.is_valid <=> (validation_result.issues = <<>>)
        /\ (MinPeriod(df) = NaT) =>
            /\ ~validation_result.is_valid
            /\ \E i \in 1..Len(validation_result.issues) :
                validation_result.issues[i] = "validation_error"

C27_Witness ==
    /\ Validated
    /\ MinPeriod(df) # NaT
    /\ ~validation_result.is_valid
    /\ Len(validation_result.issues) >= 2
    /\ validation_result.summary # <<>>

\* ------------------------------------------- properties: no date constraint

\* C28: when the date selection given to apply_filters does not hold exactly
\* two dates (absent, empty, or a start date only), no date constraint is
\* applied: the view is the one the same call gives without a date range,
\* that is every row meeting the key selections, in the table's order,
\* whatever its period, a null period included.
C28_NoDateConstraint ==
    (Filtered /\ Len(date_range) # 2) =>
        /\ filtered_df = apply_filters(df, <<>>, selected_staff, selected_product,
                                       selected_customer)
        /\ filtered_df = SelectSeq(df, LAMBDA r :
                /\ Constrains(selected_staff) => r.staff = selected_staff[1]
                /\ Constrains(selected_product) => r.product = selected_product[1]
                /\ Constrains(selected_customer) => r.customer = selected_customer[1])

C28_Witness ==
    /\ Filtered
    /\ Len(date_range) = 1
    /\ Len(df) = 2
    /\ Len(filtered_df) = 1
    /\ filtered_df[1].period = NaT
    /\ Constrains(selected_staff)

====
